---------------------------- MODULE Spec2Model ----------------------------
(***************************************************************************)
(* Model of main.py: the batcher (batchify), the window extractor          *)
(* (get_batch), the evaluation and training loops, and the training        *)
(* controller (checkpoint rule, patience / learning-rate decay, interrupt, *)
(* checkpoint load and final test evaluation).                             *)
(*                                                                         *)
(* The neural network, the loss function and the optimizer are external    *)
(* collaborators: the loss a call returns is an input chosen from          *)
(* LossValues, and the model's parameters are represented by the number of *)
(* optimizer steps applied to them.                                        *)
(***************************************************************************)
EXTENDS Integers, Sequences, FiniteSets, TLC

\* ------------------------------------------------------------------ bounds
\* Longest token stream and widest batch of SpecBatch.
MaxLen == 26
MaxBsz == 4
\* Longest token stream of SpecEpoch (its batch widths are 1..2).
MaxTokens == 7
\* Longest token stream, most epochs and most evaluations per epoch of Spec.
MaxCtlTokens == 2
MaxEpochs == 2
MaxCtlInterval == 2
MaxBptt == 3
MaxNorder == 2
MaxInterval == 3
MaxPatience == 2
MaxLoss == 2

\* ------------------------------------------------------- program constants
\* corpus.dictionary.word2idx['<eos>']: the id of a word of the vocabulary.
pad_id == 0
\* --lr-decay-rate, default 4.0
lr_decay_rate == 4

\* ------------------------------------------------- Python / torch helpers
Min(a, b) == IF a <= b THEN a ELSE b

Max(a, b) == IF a >= b THEN a ELSE b

\* list(range(start, stop, step)) for step >= 1, as a sequence.
Range(start, stop, step) ==
    LET cnt == IF stop > start THEN (stop - start + step - 1) \div step ELSE 0
    IN  [n \in 1..cnt |-> start + (n - 1) * step]

\* A token stream of n tokens; token ids are the positions 0..n-1, so that
\* the place a token of a grid came from can be read off its value.
Stream(n) == [p \in 1..n |-> p - 1]

\* A 2-D tensor is [nrow, ncol, at]: at maps the cells <<r, c>>, with r and
\* c counted from 0, to their values.
Cells(nr, nc) == (0..(nr - 1)) \X (0..(nc - 1))

NoTensor == [nrow |-> 0, ncol |-> 0, at |-> [p \in Cells(0, 0) |-> 0]]

\* data.narrow(0, start, length) on a 1-D tensor.
narrow(data, start, length) == SubSeq(data, start + 1, start + length)

\* data.view(bsz, -1) on a 1-D tensor whose length is a multiple of bsz:
\* bsz rows of len/bsz consecutive elements each (row-major).
view(data, bsz) ==
    LET n == Len(data) \div bsz
    IN  [nrow |-> bsz, ncol |-> n,
         at |-> [p \in Cells(bsz, n) |-> data[p[1] * n + p[2] + 1]]]

\* m.t(): the transpose.
t(m) ==
    [nrow |-> m.ncol, ncol |-> m.nrow,
     at |-> [p \in Cells(m.ncol, m.nrow) |-> m.at[<<p[2], p[1]>>]]]

\* Row r of a 2-D tensor, as a sequence of its ncol cells.
Row(m, r) == [c \in 1..m.ncol |-> m.at[<<r, c - 1>>]]

\* source[lo:hi] along dimension 0 for 0 <= lo: Python clamps hi to the
\* number of rows and yields nothing when the range is empty.
SliceIdx(m, lo, hi) ==
    LET stop == Min(hi, m.nrow)
    IN  [n \in 1..(stop - lo) |-> lo + n - 1]

Slice(m, lo, hi) ==
    LET idx == SliceIdx(m, lo, hi)
    IN  [n \in 1..Len(idx) |-> Row(m, idx[n])]

\* rows.view(-1): the rows one after the other.
RECURSIVE Flatten(_)
Flatten(rows) ==
    IF rows = <<>> THEN <<>> ELSE Head(rows) \o Flatten(Tail(rows))

RECURSIVE SumSeq(_)
SumSeq(s) == IF s = <<>> THEN 0 ELSE Head(s) + SumSeq(Tail(s))

\* ---------------------------------------------------------------- batchify
\* A batcher that reshapes to (nbatch, bsz) directly instead of viewing as
\* (bsz, nbatch) and transposing.
batchify_rowmajor(data, bsz) ==
    LET nbatch == Len(data) \div bsz
        d      == narrow(data, 0, nbatch * bsz)
    IN  [nrow |-> nbatch, ncol |-> bsz,
         at |-> [p \in Cells(nbatch, bsz) |-> d[p[1] * bsz + p[2] + 1]]]

batchify(data, bsz) ==
    LET nbatch == Len(data) \div bsz
        d      == narrow(data, 0, nbatch * bsz)
    IN  t(view(d, bsz))


\* ------------------------------------------------------------------- state
VARIABLES
    args,            \* the parsed command line
    corpus,          \* the three token streams and the dictionary size
    train_data,      \* batchify(corpus.train, args.batch_size)
    val_data,        \* batchify(corpus.valid, args.eval_batch_size)
    test_data,       \* batchify(corpus.test, args.eval_batch_size)
    pc,              \* the statement main.py is at
    error,           \* the exception that ended the run, "" when none
    lr,              \* the learning rate, as args.lr * num / den
    optimizer,       \* <<>> before torch.optim.AdamW is built, else <<its lr>>
    best_val_loss,   \* <<>> for None, else <<loss>>
    patience_count,
    train_intervals,
    epoch,
    interval,        \* the i of "for i in range(args.train_eval_interval)"
    batches,         \* the (data, target) pairs of the last train/evaluate call
    weights,         \* the len(data) factors of the last evaluate call
    divisor,         \* the len(data_source) - 1 of the last evaluate call
    cover,           \* per row of train_data: the training windows of this
                     \* epoch whose data holds the row
    val_loss,
    test_loss,
    model,           \* the model in memory: optimizer steps applied to it
    file,            \* the file args.save
    streak           \* history: the evaluations since the last one that
                     \* wrote the checkpoint or decayed the learning rate

vars == <<args, corpus, train_data, val_data, test_data, pc, error, lr,
          optimizer, best_val_loss, patience_count, train_intervals, epoch,
          interval, batches, weights, divisor, cover, val_loss, test_loss,
          model, file, streak>>

\* args.model.startswith('FeedForward')
PadStart == args.model \in {"FeedForward", "FeedForward2"}

\* len(corpus.dictionary) + args.norder if args.pad_vocab else len(corpus.dictionary)
ntokens == IF args.pad_vocab THEN corpus.ndict + args.norder ELSE corpus.ndict

\* --------------------------------------------------------------- get_batch
\* The padding rows: args.norder rows of source.size()[1] columns.
Padding(source, ntok) ==
    IF args.pad_vocab
    THEN [n \in 1..args.norder |->
            [c \in 1..source.ncol |-> ntok - args.norder + n - 1]]
    ELSE [n \in 1..args.norder |-> [c \in 1..source.ncol |-> pad_id]]

\* A window extractor whose sequential mode takes min(bptt, len(source) - i).
get_batch_long(source, i, ntok, pad_start) ==
    LET seq_len == Min(args.bptt, source.nrow - i)
    IN  IF pad_start
        THEN [data   |-> Padding(source, ntok) \o Slice(source, i, i + seq_len - 1),
              target |-> Flatten(Slice(source, i, i + seq_len))]
        ELSE [data   |-> Slice(source, i, i + seq_len),
              target |-> Flatten(Slice(source, i + 1, i + 1 + seq_len))]

\* A window extractor whose padded mode leaves no room for the first real
\* token: its target is the sequential one.
get_batch_nofirst(source, i, ntok, pad_start) ==
    LET seq_len == Min(args.bptt, source.nrow - 1 - i)
    IN  IF pad_start
        THEN [data   |-> Padding(source, ntok) \o Slice(source, i, i + seq_len - 1),
              target |-> Flatten(Slice(source, i + 1, i + 1 + seq_len))]
        ELSE [data   |-> Slice(source, i, i + seq_len),
              target |-> Flatten(Slice(source, i + 1, i + 1 + seq_len))]

get_batch(source, i, ntok, pad_start) ==
    IF pad_start
    THEN LET seq_len == Min(args.bptt, source.nrow - i)
         IN  [data   |-> Padding(source, ntok) \o Slice(source, i, i + seq_len - 1),
              target |-> Flatten(Slice(source, i, i + seq_len))]
    ELSE LET seq_len == Min(args.bptt, source.nrow - 1 - i)
         IN  [data   |-> Slice(source, i, i + seq_len),
              target |-> Flatten(Slice(source, i + 1, i + 1 + seq_len))]

\* The rows of source that the data of the window at i holds: the rows
\* after the padding are source[i], source[i+1], ...
DataRows(source, i, pad_start) ==
    LET b    == get_batch(source, i, ntokens, pad_start)
        real == Len(b.data) - (IF pad_start THEN args.norder ELSE 0)
    IN  [n \in 1..real |-> i + n - 1]

\* The windows of one loop: get_batch at every start of starts.
Windows(source, starts) ==
    [n \in 1..Len(starts) |->
        LET b == get_batch(source, starts[n], ntokens, PadStart)
        IN  [i |-> starts[n], data |-> b.data, target |-> b.target]]

\* ---------------------------------------------------------------- evaluate
\* for i in range(0, data_source.size(0) - 1, args.bptt)
EvalStarts(data_source) == Range(0, data_source.nrow - 1, args.bptt)

\* The factor of total_loss += len(data) * criterion(output, targets).item()
EvalWeight(b) == Len(b.data)

\* ------------------------------------------------------------------- train
\* for batch, i in enumerate(range(start_batch, end_batch, args.bptt))
TrainStarts(start_batch, end_batch) == Range(start_batch, end_batch, args.bptt)

\* train_frac and train_intervals
TrainIntervals(rows) ==
    LET train_frac == rows \div args.train_eval_interval
    IN  [n \in 1..args.train_eval_interval |-> train_frac * (n - 1)]
        \o <<rows - 1>>

\* cover with the data rows of the windows at starts counted in.
Covered(cv, starts) ==
    [r \in 1..Len(cv) |->
        cv[r] + Cardinality({n \in 1..Len(starts) :
            \E k \in 1..Len(DataRows(train_data, starts[n], PadStart)) :
                DataRows(train_data, starts[n], PadStart)[k] = r - 1})]

\* ------------------------------------------------------- controller rules
\* Python's "not x" for None or a float.
PyNot(x) == x = <<>> \/ x[1] = 0

\* if not best_val_loss or val_loss < best_val_loss
Improved(best, val) == PyNot(best) \/ val < best[1]

\* A decay rule that fires one evaluation early.
ShouldDecay_early(count) == count + 1 = args.patience

\* A decay rule that tests for a counter beyond the threshold.
ShouldDecay_never(count) == count > args.patience

\* if patience_count == args.patience

ShouldDecay(count) == count = args.patience

\* -------------------------------------------------------------------- Init
\* The corpus: three token streams and the size of the dictionary (at
\* least the <eos> word).
Corpus(ntrain, nvalid, ntest) ==
    [train |-> Stream(ntrain), valid |-> Stream(nvalid), test |-> Stream(ntest),
     ndict |-> Max(1, Max(ntrain, Max(nvalid, ntest)))]

\* The state when main.py has parsed its arguments and loaded the corpus
\* (line 85), for the command line a and the corpus c.
Start(a, c) ==
    /\ args = a
    /\ corpus = c
    /\ train_data = NoTensor
    /\ val_data = NoTensor
    /\ test_data = NoTensor
    /\ pc = "load_data"
    /\ error = ""
    /\ lr = [num |-> 1, den |-> 1]
    /\ optimizer = <<>>
    /\ best_val_loss = <<>>
    /\ patience_count = 0
    /\ train_intervals = <<>>
    /\ epoch = 0
    /\ interval = 0
    /\ batches = <<>>
    /\ weights = <<>>
    /\ divisor = 0
    /\ cover = <<>>
    /\ val_loss = 0
    /\ test_loss = 0
    /\ model = 0
    /\ file = [state |-> "missing", model |-> 0]
    /\ streak = 0

\* SpecBatch: any stream up to MaxLen tokens, any batch width up to MaxBsz.
InitBatch ==
    \E n \in 0..MaxLen, b \in 1..MaxBsz :
        Start([batch_size |-> b, eval_batch_size |-> b, bptt |-> 1,
               norder |-> 1, model |-> "FeedForward", pad_vocab |-> FALSE,
               optim |-> "adamw", epochs |-> 1, patience |-> 1,
               train_eval_interval |-> 1],
              Corpus(n, n, n))

\* SpecEpoch: one epoch over every grid, window length, context size, model
\* family and evaluation cadence within the bounds.
InitEpoch ==
    \E n \in 0..MaxTokens, b \in 1..2, w \in 1..MaxBptt, o \in 1..MaxNorder,
       m \in {"FeedForward", "LSTM"}, pv \in BOOLEAN, k \in 1..MaxInterval :
        Start([batch_size |-> b, eval_batch_size |-> b, bptt |-> w,
               norder |-> o, model |-> m, pad_vocab |-> pv,
               optim |-> "adamw", epochs |-> 1, patience |-> 1,
               train_eval_interval |-> k],
              Corpus(n, n, n))

\* Spec: the controller over every optimizer name, patience, number of
\* epochs and evaluation cadence within the bounds; the training stream is
\* empty or full, the validation and test streams have any length.
Init ==
    \E nt \in {0, MaxCtlTokens}, nv \in 0..MaxCtlTokens,
       op \in {"adamw", "sgd", "adam"}, p \in 0..MaxPatience,
       e \in 1..MaxEpochs, k \in 1..MaxCtlInterval :
        Start([batch_size |-> 1, eval_batch_size |-> 1, bptt |-> 1,
               norder |-> 1, model |-> "FeedForward", pad_vocab |-> FALSE,
               optim |-> op, epochs |-> e, patience |-> p,
               train_eval_interval |-> k],
              Corpus(nt, nv, nv))

\* ----------------------------------------------------------------- actions
\* Lines 109-111.
LoadData ==
    /\ pc = "load_data"
    /\ train_data' = batchify(corpus.train, args.batch_size)
    /\ val_data' = batchify(corpus.valid, args.eval_batch_size)
    /\ test_data' = batchify(corpus.test, args.eval_batch_size)
    /\ pc' = "optim"
    /\ UNCHANGED <<args, corpus, error, lr, optimizer, best_val_loss,
                   patience_count, train_intervals, epoch, interval, batches,
                   weights, divisor, cover, val_loss, test_loss, model, file,
                   streak>>

\* Lines 251-256.
SelectOptimizer ==
    /\ pc = "optim"
    /\ optimizer' = IF args.optim = "adamw" THEN <<lr>> ELSE optimizer
    /\ pc' = IF args.optim \in {"adamw", "sgd"} THEN "init" ELSE "error"
    /\ error' = IF args.optim \in {"adamw", "sgd"} THEN error ELSE "AssertionError"
    /\ UNCHANGED <<args, corpus, train_data, val_data, test_data, lr,
                   best_val_loss, patience_count, train_intervals, epoch,
                   interval, batches, weights, divisor, cover, val_loss,
                   test_loss, model, file, streak>>

\* Lines 258-269: the controller's variables, and the entry of the loops.
InitControl ==
    /\ pc = "init"
    /\ best_val_loss' = <<>>
    /\ patience_count' = 0
    /\ train_intervals' = TrainIntervals(train_data.nrow)
    /\ epoch' = 1
    /\ interval' = 0
    /\ cover' = [r \in 1..train_data.nrow |-> 0]
    /\ pc' = "train"
    /\ UNCHANGED <<args, corpus, train_data, val_data, test_data, error, lr,
                   optimizer, batches, weights, divisor, val_loss, test_loss,
                   model, file, streak>>

\* Line 270, lines 193-238: train(train_intervals[i], train_intervals[i+1]);
\* every window is one optimizer step.
Train ==
    /\ pc = "train"
    /\ LET starts == TrainStarts(train_intervals[interval + 1],
                                 train_intervals[interval + 2])
       IN  /\ batches' = Windows(train_data, starts)
           /\ cover' = Covered(cover, starts)
           /\ model' = model + Len(starts)
    /\ pc' = "eval"
    /\ UNCHANGED <<args, corpus, train_data, val_data, test_data, error, lr,
                   optimizer, best_val_loss, patience_count, train_intervals,
                   epoch, interval, weights, divisor, val_loss, test_loss,
                   file, streak>>

\* Lines 172-190 on data_source. The division by len(data_source) - 1
\* raises ZeroDivisionError on a grid of one row; on a grid of no rows no
\* window is visited and 0.0 / -1 is returned; else the mean is a loss of
\* losses.
Evaluated(data_source, losses, ok, loss) ==
    LET ws == Windows(data_source, EvalStarts(data_source))
    IN  /\ batches' = ws
        /\ weights' = [n \in 1..Len(ws) |-> EvalWeight(ws[n])]
        /\ divisor' = data_source.nrow - 1
        /\ ok = (data_source.nrow /= 1)
        /\ loss \in (IF data_source.nrow < 2 THEN {0} ELSE losses)

\* Line 271: val_loss = evaluate(val_data).
Evaluate(losses) ==
    /\ pc = "eval"
    /\ \E ok \in BOOLEAN, l \in losses \cup {0} :
        /\ Evaluated(val_data, losses, ok, l)
        /\ val_loss' = IF ok THEN l ELSE val_loss
        /\ pc' = IF ok THEN "decide" ELSE "error"
        /\ error' = IF ok THEN error ELSE "ZeroDivisionError"
    /\ UNCHANGED <<args, corpus, train_data, val_data, test_data, lr,
                   optimizer, best_val_loss, patience_count, train_intervals,
                   epoch, interval, cover, test_loss, model, file, streak>>

\* Lines 278-290. An improvement opens args.save for writing, which
\* truncates it; otherwise the patience rule runs.
Decide ==
    /\ pc = "decide"
    /\ IF Improved(best_val_loss, val_loss)
       THEN /\ file' = [state |-> "partial", model |-> model]
            /\ pc' = "save"
            /\ UNCHANGED <<lr, patience_count, streak>>
       ELSE /\ IF ShouldDecay(patience_count)
               THEN /\ lr' = [num |-> lr.num, den |-> lr.den * lr_decay_rate]
                    /\ patience_count' = 0
                    /\ streak' = 0
               ELSE /\ patience_count' = patience_count + 1
                    /\ lr' = lr
                    /\ streak' = streak + 1
            /\ pc' = "set_lr"
            /\ file' = file
    /\ UNCHANGED <<args, corpus, train_data, val_data, test_data, error,
                   optimizer, best_val_loss, train_intervals, epoch, interval,
                   batches, weights, divisor, cover, val_loss, test_loss,
                   model>>

\* Lines 280-282: torch.save has written the whole model.
SaveCheckpoint ==
    /\ pc = "save"
    /\ file' = [state |-> "complete", model |-> model]
    /\ best_val_loss' = <<val_loss>>
    /\ patience_count' = 0
    /\ streak' = 0
    /\ pc' = "set_lr"
    /\ UNCHANGED <<args, corpus, train_data, val_data, test_data, error, lr,
                   optimizer, train_intervals, epoch, interval, batches,
                   weights, divisor, cover, val_loss, test_loss, model>>

\* Lines 292-294, then the next turn of the loops of lines 267 and 269.
SetLr ==
    /\ pc = "set_lr"
    /\ optimizer' = IF args.optim /= "sgd" THEN <<lr>> ELSE optimizer
    /\ IF interval + 1 < args.train_eval_interval
       THEN /\ interval' = interval + 1
            /\ pc' = "train"
            /\ UNCHANGED <<epoch, cover>>
       ELSE IF epoch < args.epochs
       THEN /\ epoch' = epoch + 1
            /\ interval' = 0
            /\ cover' = [r \in 1..train_data.nrow |-> 0]
            /\ pc' = "train"
       ELSE /\ pc' = "load"
            /\ UNCHANGED <<epoch, interval, cover>>
    /\ UNCHANGED <<args, corpus, train_data, val_data, test_data, error, lr,
                   best_val_loss, patience_count, train_intervals, batches,
                   weights, divisor, val_loss, test_loss, model, file, streak>>

\* Lines 297-299: KeyboardInterrupt anywhere inside the try block.
Interrupt ==
    /\ pc \in {"train", "eval", "decide", "save", "set_lr"}
    /\ pc' = "load"
    /\ UNCHANGED <<args, corpus, train_data, val_data, test_data, error, lr,
                   optimizer, best_val_loss, patience_count, train_intervals,
                   epoch, interval, batches, weights, divisor, cover,
                   val_loss, test_loss, model, file, streak>>

\* Lines 302-308: open(args.save, 'rb') and torch.load.
LoadCheckpoint ==
    /\ pc = "load"
    /\ model' = IF file.state = "complete" THEN file.model ELSE model
    /\ pc' = IF file.state = "complete" THEN "test" ELSE "error"
    /\ error' = CASE file.state = "complete" -> error
                  [] file.state = "missing" -> "FileNotFoundError"
                  [] OTHER -> "UnpicklingError"
    /\ UNCHANGED <<args, corpus, train_data, val_data, test_data, lr,
                   optimizer, best_val_loss, patience_count, train_intervals,
                   epoch, interval, batches, weights, divisor, cover,
                   val_loss, test_loss, file, streak>>

\* Line 311: test_loss = evaluate(test_data).
Test(losses) ==
    /\ pc = "test"
    /\ \E ok \in BOOLEAN, l \in losses \cup {0} :
        /\ Evaluated(test_data, losses, ok, l)
        /\ test_loss' = IF ok THEN l ELSE test_loss
        /\ pc' = IF ok THEN "done" ELSE "error"
        /\ error' = IF ok THEN error ELSE "ZeroDivisionError"
    /\ UNCHANGED <<args, corpus, train_data, val_data, test_data, lr,
                   optimizer, best_val_loss, patience_count, train_intervals,
                   epoch, interval, cover, val_loss, model, file, streak>>

\* ---------------------------------------------------------- specifications
\* The losses the model can produce on a split.
LossValues == 0..MaxLoss

NextBatch == LoadData

SpecBatch == InitBatch /\ [][NextBatch]_vars

\* One epoch, uninterrupted, of a model whose loss is always 1.
NextEpoch ==
    \/ LoadData
    \/ SelectOptimizer
    \/ InitControl
    \/ Train
    \/ Evaluate({1})
    \/ Decide
    \/ SaveCheckpoint
    \/ SetLr
    \/ LoadCheckpoint
    \/ Test({1})

SpecEpoch == InitEpoch /\ [][NextEpoch]_vars

Next ==
    \/ LoadData
    \/ SelectOptimizer
    \/ InitControl
    \/ Train
    \/ Evaluate(LossValues)
    \/ Decide
    \/ SaveCheckpoint
    \/ SetLr
    \/ Interrupt
    \/ LoadCheckpoint
    \/ Test(LossValues)

Spec == Init /\ [][Next]_vars

\* ------------------------------------------------------------------ claims
\* C1: batchify of a stream of N tokens at width B is a grid of N \div B
\* rows and B columns whose cell (r, c) is stream[c * rows + r]; the tokens
\* of the grid are the first N - (N % B) of the stream.
C1_BatchifyGrid ==
    pc /= "load_data" =>
        LET N    == Len(corpus.train)
            B    == args.batch_size
            rows == N \div B
        IN  /\ train_data.nrow = rows
            /\ train_data.ncol = B
            /\ \A r \in 0..(rows - 1), c \in 0..(B - 1) :
                   train_data.at[<<r, c>>] = corpus.train[c * rows + r + 1]
            /\ {train_data.at[p] : p \in DOMAIN train_data.at}
                   = {corpus.train[q] : q \in 1..(N - (N % B))}
            /\ Cardinality(DOMAIN train_data.at) = N - (N % B)

\* 26 tokens at width 4: 6 rows of 4 columns, row 0 is 0 6 12 18, and the
\* tokens 24 and 25 are dropped.
C1_Witness ==
    /\ pc = "optim"
    /\ Len(corpus.train) = 26
    /\ args.batch_size = 4
    /\ train_data.nrow = 6
    /\ train_data.ncol = 4
    /\ Row(train_data, 0) = <<0, 6, 12, 18>>
    /\ \A p \in DOMAIN train_data.at : train_data.at[p] < 24

\* The grid the windows of batches were cut from: train() has just
\* returned at "eval", evaluate(val_data) at "decide", evaluate(test_data)
\* at "done".
Source ==
    CASE pc = "eval" -> train_data
      [] pc = "decide" -> val_data
      [] pc = "done" -> test_data
      [] OTHER -> NoTensor

AfterLoop == pc \in {"eval", "decide", "done"}

\* Rows lo .. hi-1 of a grid, with no clamping.
RowsOf(m, lo, hi) == [k \in 1..(hi - lo) |-> Row(m, lo + k - 1)]

\* C2: in sequential mode every window of train and evaluate has length
\* L = min(bptt, R-1-i) with 1 <= L <= bptt, its data is rows [i, i+L), its
\* target is rows [i+1, i+1+L) flattened, and i+1+L <= R.
C2_SequentialWindows ==
    (AfterLoop /\ ~PadStart) =>
        \A n \in 1..Len(batches) :
            LET w == batches[n]
                R == Source.nrow
                L == Min(args.bptt, R - 1 - w.i)
            IN  /\ 1 <= L
                /\ L <= args.bptt
                /\ w.i + 1 + L <= R
                /\ w.data = RowsOf(Source, w.i, w.i + L)
                /\ w.target = Flatten(RowsOf(Source, w.i + 1, w.i + 1 + L))

\* An evaluation in sequential mode whose final window is truncated.
C2_Witness ==
    /\ pc = "decide"
    /\ ~PadStart
    /\ Len(batches) >= 2
    /\ Len(batches[Len(batches)].data) < args.bptt
    /\ Len(batches[1].data) = args.bptt

\* The number of target rows of the sequential-mode window at start i.
SequentialRows(source, i) ==
    Len(get_batch(source, i, ntokens, FALSE).target) \div source.ncol

\* The data of a padded window starts with args.norder synthetic rows: the
\* reserved ids when the vocabulary is padded, else rows of pad_id.
PadPrefix(w, source) ==
    /\ Len(w.data) >= args.norder
    /\ \A n \in 1..args.norder : \A c \in 1..source.ncol :
           w.data[n][c] = IF args.pad_vocab
                          THEN corpus.ndict + n - 1
                          ELSE pad_id

\* C3 as stated: padded data is the norder synthetic rows followed by real
\* rows, and the target has exactly one more row than the sequential-mode
\* target for the same window start.
C3_OneMoreRow ==
    (AfterLoop /\ PadStart) =>
        \A n \in 1..Len(batches) :
            LET w == batches[n]
            IN  /\ PadPrefix(w, Source)
                /\ Len(w.target) \div Source.ncol
                       = SequentialRows(Source, w.i) + 1

\* C3 amended: with L = min(bptt, R-i), padded data is the norder synthetic
\* rows followed by rows [i, i+L-1), the target is rows [i, i+L) flattened,
\* and the target has one more row than the sequential-mode target exactly
\* when the end of the grid truncates the window (bptt > R-1-i); otherwise
\* both have bptt rows.
C3_PaddedWindows ==
    (AfterLoop /\ PadStart) =>
        \A n \in 1..Len(batches) :
            LET w == batches[n]
                R == Source.nrow
                L == Min(args.bptt, R - w.i)
            IN  /\ 1 <= L
                /\ w.i + L <= R
                /\ PadPrefix(w, Source)
                /\ w.data = SubSeq(w.data, 1, args.norder)
                                \o RowsOf(Source, w.i, w.i + L - 1)
                /\ w.target = Flatten(RowsOf(Source, w.i, w.i + L))
                /\ L = SequentialRows(Source, w.i)
                         + (IF args.bptt > R - 1 - w.i THEN 1 ELSE 0)

\* A padded evaluation with a full window (as many target rows as the
\* sequential one) followed by a truncated one (one more).
C3_Witness ==
    /\ pc = "decide"
    /\ PadStart
    /\ args.norder = 2
    /\ Len(batches) >= 2
    /\ Len(batches[1].target) \div Source.ncol
           = SequentialRows(Source, batches[1].i)
    /\ Len(batches[Len(batches)].target) \div Source.ncol
           = SequentialRows(Source, batches[Len(batches)].i) + 1

\* C7: the weight of each window of evaluate is the number of its target
\* rows, and the weights sum to the divisor R - 1 (on a split with windows).
C7_MeanWeights ==
    (pc = "decide" /\ val_data.nrow >= 2) =>
        /\ \A n \in 1..Len(batches) :
               weights[n] = Len(batches[n].target) \div val_data.ncol
        /\ SumSeq(weights) = divisor

\* C10: at the end of an epoch the sub-intervals have equal length and
\* every row of [0, R-1) was the data of exactly one training window
\* (stated for the sequential mode, where data and window coincide).
C10_EpochPartition ==
    (pc = "load" /\ train_data.nrow >= 2 /\ ~PadStart) =>
        /\ \A j \in 1..args.train_eval_interval :
               train_intervals[j + 1] - train_intervals[j]
                   = train_intervals[2] - train_intervals[1]
        /\ \A r \in 1..(train_data.nrow - 1) : cover[r] = 1

\* ------------------------------------------------- claims on the controller
\* An evaluation step: the decision of lines 278-290 is taken.
EvalStep == pc = "decide" /\ pc' \in {"save", "set_lr"}

\* C4: an evaluation step writes the checkpoint iff no best loss is
\* recorded or the new loss is strictly lower than the recorded best; no
\* other evaluation step touches the checkpoint.
C4_CheckpointIff ==
    [][(EvalStep /\ val_data.nrow >= 2) =>
        /\ (pc' = "save") <=>
               (best_val_loss = <<>> \/ val_loss < best_val_loss[1])
        /\ (pc' = "set_lr") => file' = file]_vars

\* C5 as stated: the learning rate is divided by lr_decay_rate at the
\* patience-th evaluation in a row, since the last checkpoint update or
\* decay, that does not improve, and changes in no other step.
C5_DecayAtPatience ==
    [][/\ lr' /= lr <=> (EvalStep /\ pc' = "set_lr" /\ streak + 1 = args.patience)
       /\ lr' /= lr => lr' = [num |-> lr.num, den |-> lr.den * lr_decay_rate]]_vars

\* C5 amended: the learning rate is divided by lr_decay_rate in exactly
\* the evaluation steps that do not write the checkpoint and follow
\* args.patience such evaluations since the last checkpoint update or
\* decay (the (patience+1)-th in a row), and changes in no other step.
C5_DecayAfterPatience ==
    [][/\ lr' /= lr <=> (EvalStep /\ pc' = "set_lr" /\ streak = args.patience)
       /\ lr' /= lr => lr' = [num |-> lr.num, den |-> lr.den * lr_decay_rate]]_vars

\* patience = 2: the third evaluation in a row without a checkpoint has
\* just decayed the learning rate, once.
C5_Witness ==
    /\ args.patience = 2
    /\ pc = "set_lr"
    /\ lr = [num |-> 1, den |-> lr_decay_rate]
    /\ streak = 0
    /\ patience_count = 0
    /\ file.state = "complete"
    /\ best_val_loss /= <<>>
    /\ val_loss >= best_val_loss[1]
    /\ best_val_loss[1] > 0

\* C6: whenever the checkpoint is loaded, the file holds a completely
\* written checkpoint.
C6_LoadsCompleteCheckpoint == pc = "load" => file.state = "complete"

\* C8: the patience counter is 0 after a step that writes the checkpoint
\* or decays the learning rate, one more after any other evaluation step
\* that does not improve, unchanged by every other step, and always within
\* 0 .. args.patience.
C8_PatienceCounter ==
    /\ [][/\ (pc = "save" /\ pc' = "set_lr") => patience_count' = 0
          /\ (EvalStep /\ pc' = "set_lr" /\ lr' /= lr) => patience_count' = 0
          /\ (EvalStep /\ pc' = "set_lr" /\ lr' = lr)
                 => patience_count' = patience_count + 1
          /\ ~(pc = "save" /\ pc' = "set_lr") /\ ~(EvalStep /\ pc' = "set_lr")
                 => patience_count' = patience_count]_vars
    /\ [](0 <= patience_count /\ patience_count <= args.patience)

\* After a decay the counter has climbed back to args.patience.
C8_Witness ==
    /\ args.patience >= 1
    /\ patience_count = args.patience
    /\ lr.den > 1
    /\ pc = "set_lr"

\* A configuration error: an unsupported optimizer name, or a batch size
\* larger than a split's token count.
ConfigError ==
    \/ args.optim \notin {"adamw", "sgd"}
    \/ args.batch_size > Len(corpus.train)
    \/ args.eval_batch_size > Len(corpus.valid)
    \/ args.eval_batch_size > Len(corpus.test)

\* C9: from a configuration error no window is trained, no evaluation
\* returns and no checkpoint is written.
C9_ConfigErrorsFatal ==
    ConfigError =>
        /\ pc \notin {"decide", "save", "set_lr", "test", "done"}
        /\ model = 0
        /\ file.state = "missing"
=============================================================================
